---------------------------- MODULE Spec2Model ----------------------------
(***************************************************************************)
(* Model of src/worker/external-notifications/apprise-runner.py: a one-shot *)
(* adapter that reads a JSON request on stdin, registers destinations with *)
(* the apprise library, calls notify once and reports a JSON result.       *)
(*                                                                         *)
(* Strings that the program inspects (urls entries, title, body,           *)
(* notifyType) are sequences of Unicode code points, so that strip() and   *)
(* lower() are computed.  Text that the program only emits (stdout and     *)
(* stderr lines) are TLA+ strings.                                         *)
(***************************************************************************)
EXTENDS Integers, Sequences, FiniteSets, TLC

\* Longest urls list drawn as input.
MaxUrls == 2

VARIABLES
    stdin,        \* the text on standard input: decodable or not, and its JSON value
    pc,           \* position in main()
    payload,      \* main: payload
    urls,         \* main: urls
    title,        \* main: title
    body,         \* main: body
    notify_type,  \* main: notify_type
    i,            \* number of entries of urls the for loop has consumed
    added,        \* main: added
    ok,           \* main: ok
    trace,        \* observable events in order: library calls, stream writes, flushes
    exit_code     \* process exit status, -1 while running

vars == <<stdin, pc, payload, urls, title, body, notify_type, i, added, ok,
          trace, exit_code>>

---------------------------------------------------------------------------
\* JSON values as json.load produces them.  One record shape for all types:
\* t = type tag, b = bool value, n = number value, s = string value,
\* l = list items, m = object members as a set of <<key, value>> pairs.

JNull    == [t |-> "null", b |-> FALSE, n |-> 0, s |-> <<>>, l |-> <<>>, m |-> {}]
JBool(x) == [t |-> "bool", b |-> x,     n |-> 0, s |-> <<>>, l |-> <<>>, m |-> {}]
JNum(k)  == [t |-> "num",  b |-> FALSE, n |-> k, s |-> <<>>, l |-> <<>>, m |-> {}]
JStr(cs) == [t |-> "str",  b |-> FALSE, n |-> 0, s |-> cs,   l |-> <<>>, m |-> {}]
JList(q) == [t |-> "list", b |-> FALSE, n |-> 0, s |-> <<>>, l |-> q,    m |-> {}]
JObj(ms) == [t |-> "obj",  b |-> FALSE, n |-> 0, s |-> <<>>, l |-> <<>>, m |-> ms]

\* Python truthiness of a decoded JSON value (the left operand of `or`).
Truthy(v) ==
    CASE v.t = "null" -> FALSE
      [] v.t = "bool" -> v.b
      [] v.t = "num"  -> v.n /= 0
      [] v.t = "str"  -> Len(v.s) > 0
      [] v.t = "list" -> Len(v.l) > 0
      [] v.t = "obj"  -> v.m /= {}

\* `x or d`
PyOr(v, d) == IF Truthy(v) THEN v ELSE d

\* dict.get(key): the member's value, None when the key is absent.
Get(obj, key) ==
    IF \E p \in obj.m : p[1] = key
    THEN (CHOOSE p \in obj.m : p[1] = key)[2]
    ELSE JNull

\* Only a dict has .get; on any other JSON value the attribute lookup raises.
HasGet(v) == v.t = "obj"

\* isinstance(v, list) / isinstance(v, str)
IsList(v) == v.t = "list"
IsStr(v)  == v.t = "str"

---------------------------------------------------------------------------
\* str.lower() and str.strip() on character sequences.  A character is its
\* Unicode code point; the tables are those of the interpreter's Unicode
\* database.

\* Code points outside ASCII with a one-character lowercase of their own:
\* <<first, last, step, delta>> lowers first, first+step, ..., last by
\* adding delta.
LowerTable == <<
    <<192, 214, 1, 32>>, <<216, 222, 1, 32>>, <<256, 302, 2, 1>>, <<306, 310, 2, 1>>,
    <<313, 327, 2, 1>>, <<330, 374, 2, 1>>, <<376, 376, 1, -121>>, <<377, 381, 2, 1>>,
    <<385, 385, 1, 210>>, <<386, 388, 2, 1>>, <<390, 390, 1, 206>>, <<391, 391, 1, 1>>,
    <<393, 394, 1, 205>>, <<395, 395, 1, 1>>, <<398, 398, 1, 79>>, <<399, 399, 1, 202>>,
    <<400, 400, 1, 203>>, <<401, 401, 1, 1>>, <<403, 403, 1, 205>>, <<404, 404, 1, 207>>,
    <<406, 406, 1, 211>>, <<407, 407, 1, 209>>, <<408, 408, 1, 1>>, <<412, 412, 1, 211>>,
    <<413, 413, 1, 213>>, <<415, 415, 1, 214>>, <<416, 420, 2, 1>>, <<422, 422, 1, 218>>,
    <<423, 423, 1, 1>>, <<425, 425, 1, 218>>, <<428, 428, 1, 1>>, <<430, 430, 1, 218>>,
    <<431, 431, 1, 1>>, <<433, 434, 1, 217>>, <<435, 437, 2, 1>>, <<439, 439, 1, 219>>,
    <<440, 440, 1, 1>>, <<444, 444, 1, 1>>, <<452, 452, 1, 2>>, <<453, 453, 1, 1>>,
    <<455, 455, 1, 2>>, <<456, 456, 1, 1>>, <<458, 458, 1, 2>>, <<459, 475, 2, 1>>,
    <<478, 494, 2, 1>>, <<497, 497, 1, 2>>, <<498, 500, 2, 1>>, <<502, 502, 1, -97>>,
    <<503, 503, 1, -56>>, <<504, 542, 2, 1>>, <<544, 544, 1, -130>>, <<546, 562, 2, 1>>,
    <<570, 570, 1, 10795>>, <<571, 571, 1, 1>>, <<573, 573, 1, -163>>, <<574, 574, 1, 10792>>,
    <<577, 577, 1, 1>>, <<579, 579, 1, -195>>, <<580, 580, 1, 69>>, <<581, 581, 1, 71>>,
    <<582, 590, 2, 1>>, <<880, 882, 2, 1>>, <<886, 886, 1, 1>>, <<895, 895, 1, 116>>,
    <<902, 902, 1, 38>>, <<904, 906, 1, 37>>, <<908, 908, 1, 64>>, <<910, 911, 1, 63>>,
    <<913, 929, 1, 32>>, <<931, 939, 1, 32>>, <<975, 975, 1, 8>>, <<984, 1006, 2, 1>>,
    <<1012, 1012, 1, -60>>, <<1015, 1015, 1, 1>>, <<1017, 1017, 1, -7>>, <<1018, 1018, 1, 1>>,
    <<1021, 1023, 1, -130>>, <<1024, 1039, 1, 80>>, <<1040, 1071, 1, 32>>, <<1120, 1152, 2, 1>>,
    <<1162, 1214, 2, 1>>, <<1216, 1216, 1, 15>>, <<1217, 1229, 2, 1>>, <<1232, 1326, 2, 1>>,
    <<1329, 1366, 1, 48>>, <<4256, 4293, 1, 7264>>, <<4295, 4295, 1, 7264>>, <<4301, 4301, 1, 7264>>,
    <<5024, 5103, 1, 38864>>, <<5104, 5109, 1, 8>>, <<7312, 7354, 1, -3008>>, <<7357, 7359, 1, -3008>>,
    <<7680, 7828, 2, 1>>, <<7838, 7838, 1, -7615>>, <<7840, 7934, 2, 1>>, <<7944, 7951, 1, -8>>,
    <<7960, 7965, 1, -8>>, <<7976, 7983, 1, -8>>, <<7992, 7999, 1, -8>>, <<8008, 8013, 1, -8>>,
    <<8025, 8031, 2, -8>>, <<8040, 8047, 1, -8>>, <<8072, 8079, 1, -8>>, <<8088, 8095, 1, -8>>,
    <<8104, 8111, 1, -8>>, <<8120, 8121, 1, -8>>, <<8122, 8123, 1, -74>>, <<8124, 8124, 1, -9>>,
    <<8136, 8139, 1, -86>>, <<8140, 8140, 1, -9>>, <<8152, 8153, 1, -8>>, <<8154, 8155, 1, -100>>,
    <<8168, 8169, 1, -8>>, <<8170, 8171, 1, -112>>, <<8172, 8172, 1, -7>>, <<8184, 8185, 1, -128>>,
    <<8186, 8187, 1, -126>>, <<8188, 8188, 1, -9>>, <<8486, 8486, 1, -7517>>, <<8490, 8490, 1, -8383>>,
    <<8491, 8491, 1, -8262>>, <<8498, 8498, 1, 28>>, <<8544, 8559, 1, 16>>, <<8579, 8579, 1, 1>>,
    <<9398, 9423, 1, 26>>, <<11264, 11311, 1, 48>>, <<11360, 11360, 1, 1>>, <<11362, 11362, 1, -10743>>,
    <<11363, 11363, 1, -3814>>, <<11364, 11364, 1, -10727>>, <<11367, 11371, 2, 1>>, <<11373, 11373, 1, -10780>>,
    <<11374, 11374, 1, -10749>>, <<11375, 11375, 1, -10783>>, <<11376, 11376, 1, -10782>>, <<11378, 11378, 1, 1>>,
    <<11381, 11381, 1, 1>>, <<11390, 11391, 1, -10815>>, <<11392, 11490, 2, 1>>, <<11499, 11501, 2, 1>>,
    <<11506, 11506, 1, 1>>, <<42560, 42604, 2, 1>>, <<42624, 42650, 2, 1>>, <<42786, 42798, 2, 1>>,
    <<42802, 42862, 2, 1>>, <<42873, 42875, 2, 1>>, <<42877, 42877, 1, -35332>>, <<42878, 42886, 2, 1>>,
    <<42891, 42891, 1, 1>>, <<42893, 42893, 1, -42280>>, <<42896, 42898, 2, 1>>, <<42902, 42920, 2, 1>>,
    <<42922, 42922, 1, -42308>>, <<42923, 42923, 1, -42319>>, <<42924, 42924, 1, -42315>>, <<42925, 42925, 1, -42305>>,
    <<42926, 42926, 1, -42308>>, <<42928, 42928, 1, -42258>>, <<42929, 42929, 1, -42282>>, <<42930, 42930, 1, -42261>>,
    <<42931, 42931, 1, 928>>, <<42932, 42946, 2, 1>>, <<42948, 42948, 1, -48>>, <<42949, 42949, 1, -42307>>,
    <<42950, 42950, 1, -35384>>, <<42951, 42953, 2, 1>>, <<42960, 42960, 1, 1>>, <<42966, 42968, 2, 1>>,
    <<42997, 42997, 1, 1>>, <<65313, 65338, 1, 32>>, <<66560, 66599, 1, 40>>, <<66736, 66771, 1, 40>>,
    <<66928, 66964, 2, 39>>, <<66929, 66937, 2, 39>>, <<66941, 66953, 2, 39>>, <<66957, 66961, 2, 39>>,
    <<66965, 66965, 1, 39>>, <<68736, 68786, 1, 64>>, <<71840, 71871, 1, 32>>, <<93760, 93791, 1, 32>>,
    <<125184, 125217, 1, 34>> >>

\* Non-ignorable cased characters, as <<first, last>> ranges.
CasedRanges == <<
    <<65, 90>>, <<97, 122>>, <<170, 170>>, <<181, 181>>, <<186, 186>>, <<192, 214>>,
    <<216, 246>>, <<248, 442>>, <<444, 447>>, <<452, 659>>, <<661, 687>>, <<880, 883>>,
    <<886, 887>>, <<891, 893>>, <<895, 895>>, <<902, 902>>, <<904, 906>>, <<908, 908>>,
    <<910, 929>>, <<931, 1013>>, <<1015, 1153>>, <<1162, 1327>>, <<1329, 1366>>, <<1376, 1416>>,
    <<4256, 4293>>, <<4295, 4295>>, <<4301, 4301>>, <<4304, 4346>>, <<4349, 4351>>, <<5024, 5109>>,
    <<5112, 5117>>, <<7296, 7304>>, <<7312, 7354>>, <<7357, 7359>>, <<7424, 7467>>, <<7531, 7543>>,
    <<7545, 7578>>, <<7680, 7957>>, <<7960, 7965>>, <<7968, 8005>>, <<8008, 8013>>, <<8016, 8023>>,
    <<8025, 8025>>, <<8027, 8027>>, <<8029, 8029>>, <<8031, 8061>>, <<8064, 8116>>, <<8118, 8124>>,
    <<8126, 8126>>, <<8130, 8132>>, <<8134, 8140>>, <<8144, 8147>>, <<8150, 8155>>, <<8160, 8172>>,
    <<8178, 8180>>, <<8182, 8188>>, <<8450, 8450>>, <<8455, 8455>>, <<8458, 8467>>, <<8469, 8469>>,
    <<8473, 8477>>, <<8484, 8484>>, <<8486, 8486>>, <<8488, 8488>>, <<8490, 8493>>, <<8495, 8500>>,
    <<8505, 8505>>, <<8508, 8511>>, <<8517, 8521>>, <<8526, 8526>>, <<8544, 8575>>, <<8579, 8580>>,
    <<9398, 9449>>, <<11264, 11387>>, <<11390, 11492>>, <<11499, 11502>>, <<11506, 11507>>, <<11520, 11557>>,
    <<11559, 11559>>, <<11565, 11565>>, <<42560, 42605>>, <<42624, 42651>>, <<42786, 42863>>, <<42865, 42887>>,
    <<42891, 42894>>, <<42896, 42954>>, <<42960, 42961>>, <<42963, 42963>>, <<42965, 42969>>, <<42997, 42998>>,
    <<43002, 43002>>, <<43824, 43866>>, <<43872, 43880>>, <<43888, 43967>>, <<64256, 64262>>, <<64275, 64279>>,
    <<65313, 65338>>, <<65345, 65370>>, <<66560, 66639>>, <<66736, 66771>>, <<66776, 66811>>, <<66928, 66938>>,
    <<66940, 66954>>, <<66956, 66962>>, <<66964, 66965>>, <<66967, 66977>>, <<66979, 66993>>, <<66995, 67001>>,
    <<67003, 67004>>, <<68736, 68786>>, <<68800, 68850>>, <<71840, 71903>>, <<93760, 93823>>, <<119808, 119892>>,
    <<119894, 119964>>, <<119966, 119967>>, <<119970, 119970>>, <<119973, 119974>>, <<119977, 119980>>, <<119982, 119993>>,
    <<119995, 119995>>, <<119997, 120003>>, <<120005, 120069>>, <<120071, 120074>>, <<120077, 120084>>, <<120086, 120092>>,
    <<120094, 120121>>, <<120123, 120126>>, <<120128, 120132>>, <<120134, 120134>>, <<120138, 120144>>, <<120146, 120485>>,
    <<120488, 120512>>, <<120514, 120538>>, <<120540, 120570>>, <<120572, 120596>>, <<120598, 120628>>, <<120630, 120654>>,
    <<120656, 120686>>, <<120688, 120712>>, <<120714, 120744>>, <<120746, 120770>>, <<120772, 120779>>, <<122624, 122633>>,
    <<122635, 122654>>, <<125184, 125251>>, <<127280, 127305>>, <<127312, 127337>>, <<127344, 127369>> >>

\* Case-ignorable characters, as <<first, last>> ranges.
CaseIgnorableRanges == <<
    <<39, 39>>, <<46, 46>>, <<58, 58>>, <<94, 94>>, <<96, 96>>, <<168, 168>>,
    <<173, 173>>, <<175, 175>>, <<180, 180>>, <<183, 184>>, <<688, 879>>, <<884, 885>>,
    <<890, 890>>, <<900, 901>>, <<903, 903>>, <<1155, 1161>>, <<1369, 1369>>, <<1375, 1375>>,
    <<1425, 1469>>, <<1471, 1471>>, <<1473, 1474>>, <<1476, 1477>>, <<1479, 1479>>, <<1524, 1524>>,
    <<1536, 1541>>, <<1552, 1562>>, <<1564, 1564>>, <<1600, 1600>>, <<1611, 1631>>, <<1648, 1648>>,
    <<1750, 1757>>, <<1759, 1768>>, <<1770, 1773>>, <<1807, 1807>>, <<1809, 1809>>, <<1840, 1866>>,
    <<1958, 1968>>, <<2027, 2037>>, <<2042, 2042>>, <<2045, 2045>>, <<2070, 2093>>, <<2137, 2139>>,
    <<2184, 2184>>, <<2192, 2193>>, <<2200, 2207>>, <<2249, 2306>>, <<2362, 2362>>, <<2364, 2364>>,
    <<2369, 2376>>, <<2381, 2381>>, <<2385, 2391>>, <<2402, 2403>>, <<2417, 2417>>, <<2433, 2433>>,
    <<2492, 2492>>, <<2497, 2500>>, <<2509, 2509>>, <<2530, 2531>>, <<2558, 2558>>, <<2561, 2562>>,
    <<2620, 2620>>, <<2625, 2626>>, <<2631, 2632>>, <<2635, 2637>>, <<2641, 2641>>, <<2672, 2673>>,
    <<2677, 2677>>, <<2689, 2690>>, <<2748, 2748>>, <<2753, 2757>>, <<2759, 2760>>, <<2765, 2765>>,
    <<2786, 2787>>, <<2810, 2815>>, <<2817, 2817>>, <<2876, 2876>>, <<2879, 2879>>, <<2881, 2884>>,
    <<2893, 2893>>, <<2901, 2902>>, <<2914, 2915>>, <<2946, 2946>>, <<3008, 3008>>, <<3021, 3021>>,
    <<3072, 3072>>, <<3076, 3076>>, <<3132, 3132>>, <<3134, 3136>>, <<3142, 3144>>, <<3146, 3149>>,
    <<3157, 3158>>, <<3170, 3171>>, <<3201, 3201>>, <<3260, 3260>>, <<3263, 3263>>, <<3270, 3270>>,
    <<3276, 3277>>, <<3298, 3299>>, <<3328, 3329>>, <<3387, 3388>>, <<3393, 3396>>, <<3405, 3405>>,
    <<3426, 3427>>, <<3457, 3457>>, <<3530, 3530>>, <<3538, 3540>>, <<3542, 3542>>, <<3633, 3633>>,
    <<3636, 3642>>, <<3654, 3662>>, <<3761, 3761>>, <<3764, 3772>>, <<3782, 3782>>, <<3784, 3789>>,
    <<3864, 3865>>, <<3893, 3893>>, <<3895, 3895>>, <<3897, 3897>>, <<3953, 3966>>, <<3968, 3972>>,
    <<3974, 3975>>, <<3981, 3991>>, <<3993, 4028>>, <<4038, 4038>>, <<4141, 4144>>, <<4146, 4151>>,
    <<4153, 4154>>, <<4157, 4158>>, <<4184, 4185>>, <<4190, 4192>>, <<4209, 4212>>, <<4226, 4226>>,
    <<4229, 4230>>, <<4237, 4237>>, <<4253, 4253>>, <<4348, 4348>>, <<4957, 4959>>, <<5906, 5908>>,
    <<5938, 5939>>, <<5970, 5971>>, <<6002, 6003>>, <<6068, 6069>>, <<6071, 6077>>, <<6086, 6086>>,
    <<6089, 6099>>, <<6103, 6103>>, <<6109, 6109>>, <<6155, 6159>>, <<6211, 6211>>, <<6277, 6278>>,
    <<6313, 6313>>, <<6432, 6434>>, <<6439, 6440>>, <<6450, 6450>>, <<6457, 6459>>, <<6679, 6680>>,
    <<6683, 6683>>, <<6742, 6742>>, <<6744, 6750>>, <<6752, 6752>>, <<6754, 6754>>, <<6757, 6764>>,
    <<6771, 6780>>, <<6783, 6783>>, <<6823, 6823>>, <<6832, 6862>>, <<6912, 6915>>, <<6964, 6964>>,
    <<6966, 6970>>, <<6972, 6972>>, <<6978, 6978>>, <<7019, 7027>>, <<7040, 7041>>, <<7074, 7077>>,
    <<7080, 7081>>, <<7083, 7085>>, <<7142, 7142>>, <<7144, 7145>>, <<7149, 7149>>, <<7151, 7153>>,
    <<7212, 7219>>, <<7222, 7223>>, <<7288, 7293>>, <<7376, 7378>>, <<7380, 7392>>, <<7394, 7400>>,
    <<7405, 7405>>, <<7412, 7412>>, <<7416, 7417>>, <<7468, 7530>>, <<7544, 7544>>, <<7579, 7679>>,
    <<8125, 8125>>, <<8127, 8129>>, <<8141, 8143>>, <<8157, 8159>>, <<8173, 8175>>, <<8189, 8190>>,
    <<8203, 8207>>, <<8216, 8217>>, <<8228, 8228>>, <<8231, 8231>>, <<8234, 8238>>, <<8288, 8292>>,
    <<8294, 8303>>, <<8305, 8305>>, <<8319, 8319>>, <<8336, 8348>>, <<8400, 8432>>, <<11388, 11389>>,
    <<11503, 11505>>, <<11631, 11631>>, <<11647, 11647>>, <<11744, 11775>>, <<11823, 11823>>, <<12293, 12293>>,
    <<12330, 12333>>, <<12337, 12341>>, <<12347, 12347>>, <<12441, 12446>>, <<12540, 12542>>, <<40981, 40981>>,
    <<42232, 42237>>, <<42508, 42508>>, <<42607, 42610>>, <<42612, 42621>>, <<42623, 42623>>, <<42652, 42655>>,
    <<42736, 42737>>, <<42752, 42785>>, <<42864, 42864>>, <<42888, 42890>>, <<42994, 42996>>, <<43000, 43001>>,
    <<43010, 43010>>, <<43014, 43014>>, <<43019, 43019>>, <<43045, 43046>>, <<43052, 43052>>, <<43204, 43205>>,
    <<43232, 43249>>, <<43263, 43263>>, <<43302, 43309>>, <<43335, 43345>>, <<43392, 43394>>, <<43443, 43443>>,
    <<43446, 43449>>, <<43452, 43453>>, <<43471, 43471>>, <<43493, 43494>>, <<43561, 43566>>, <<43569, 43570>>,
    <<43573, 43574>>, <<43587, 43587>>, <<43596, 43596>>, <<43632, 43632>>, <<43644, 43644>>, <<43696, 43696>>,
    <<43698, 43700>>, <<43703, 43704>>, <<43710, 43711>>, <<43713, 43713>>, <<43741, 43741>>, <<43756, 43757>>,
    <<43763, 43764>>, <<43766, 43766>>, <<43867, 43871>>, <<43881, 43883>>, <<44005, 44005>>, <<44008, 44008>>,
    <<44013, 44013>>, <<64286, 64286>>, <<64434, 64450>>, <<65024, 65039>>, <<65043, 65043>>, <<65056, 65071>>,
    <<65106, 65106>>, <<65109, 65109>>, <<65279, 65279>>, <<65287, 65287>>, <<65294, 65294>>, <<65306, 65306>>,
    <<65342, 65342>>, <<65344, 65344>>, <<65392, 65392>>, <<65438, 65439>>, <<65507, 65507>>, <<65529, 65531>>,
    <<66045, 66045>>, <<66272, 66272>>, <<66422, 66426>>, <<67456, 67461>>, <<67463, 67504>>, <<67506, 67514>>,
    <<68097, 68099>>, <<68101, 68102>>, <<68108, 68111>>, <<68152, 68154>>, <<68159, 68159>>, <<68325, 68326>>,
    <<68900, 68903>>, <<69291, 69292>>, <<69446, 69456>>, <<69506, 69509>>, <<69633, 69633>>, <<69688, 69702>>,
    <<69744, 69744>>, <<69747, 69748>>, <<69759, 69761>>, <<69811, 69814>>, <<69817, 69818>>, <<69821, 69821>>,
    <<69826, 69826>>, <<69837, 69837>>, <<69888, 69890>>, <<69927, 69931>>, <<69933, 69940>>, <<70003, 70003>>,
    <<70016, 70017>>, <<70070, 70078>>, <<70089, 70092>>, <<70095, 70095>>, <<70191, 70193>>, <<70196, 70196>>,
    <<70198, 70199>>, <<70206, 70206>>, <<70367, 70367>>, <<70371, 70378>>, <<70400, 70401>>, <<70459, 70460>>,
    <<70464, 70464>>, <<70502, 70508>>, <<70512, 70516>>, <<70712, 70719>>, <<70722, 70724>>, <<70726, 70726>>,
    <<70750, 70750>>, <<70835, 70840>>, <<70842, 70842>>, <<70847, 70848>>, <<70850, 70851>>, <<71090, 71093>>,
    <<71100, 71101>>, <<71103, 71104>>, <<71132, 71133>>, <<71219, 71226>>, <<71229, 71229>>, <<71231, 71232>>,
    <<71339, 71339>>, <<71341, 71341>>, <<71344, 71349>>, <<71351, 71351>>, <<71453, 71455>>, <<71458, 71461>>,
    <<71463, 71467>>, <<71727, 71735>>, <<71737, 71738>>, <<71995, 71996>>, <<71998, 71998>>, <<72003, 72003>>,
    <<72148, 72151>>, <<72154, 72155>>, <<72160, 72160>>, <<72193, 72202>>, <<72243, 72248>>, <<72251, 72254>>,
    <<72263, 72263>>, <<72273, 72278>>, <<72281, 72283>>, <<72330, 72342>>, <<72344, 72345>>, <<72752, 72758>>,
    <<72760, 72765>>, <<72767, 72767>>, <<72850, 72871>>, <<72874, 72880>>, <<72882, 72883>>, <<72885, 72886>>,
    <<73009, 73014>>, <<73018, 73018>>, <<73020, 73021>>, <<73023, 73029>>, <<73031, 73031>>, <<73104, 73105>>,
    <<73109, 73109>>, <<73111, 73111>>, <<73459, 73460>>, <<78896, 78904>>, <<92912, 92916>>, <<92976, 92982>>,
    <<92992, 92995>>, <<94031, 94031>>, <<94095, 94111>>, <<94176, 94177>>, <<94179, 94180>>, <<110576, 110579>>,
    <<110581, 110587>>, <<110589, 110590>>, <<113821, 113822>>, <<113824, 113827>>, <<118528, 118573>>, <<118576, 118598>>,
    <<119143, 119145>>, <<119155, 119170>>, <<119173, 119179>>, <<119210, 119213>>, <<119362, 119364>>, <<121344, 121398>>,
    <<121403, 121452>>, <<121461, 121461>>, <<121476, 121476>>, <<121499, 121503>>, <<121505, 121519>>, <<122880, 122886>>,
    <<122888, 122904>>, <<122907, 122913>>, <<122915, 122916>>, <<122918, 122922>>, <<123184, 123197>>, <<123566, 123566>>,
    <<123628, 123631>>, <<125136, 125142>>, <<125252, 125259>>, <<127995, 127999>>, <<917505, 917505>>, <<917536, 917631>>,
    <<917760, 917999>> >>

InRanges(c, R) == \E k \in DOMAIN R : R[k][1] <= c /\ c <= R[k][2]
IsCased(c) == InRanges(c, CasedRanges)
IsCaseIgnorable(c) == InRanges(c, CaseIgnorableRanges)

\* The row of LowerTable that lowers c, if any.
LowerRow(c, r) == r[1] <= c /\ c <= r[2] /\ (c - r[1]) % r[3] = 0

\* Lowercase of one character that lowers to one character.
LowerChar(c) ==
    IF c <= 127
    THEN IF c \in 65..90 THEN c + 32 ELSE c
    ELSE IF \E k \in DOMAIN LowerTable : LowerRow(c, LowerTable[k])
         THEN c + LowerTable[CHOOSE k \in DOMAIN LowerTable :
                                 LowerRow(c, LowerTable[k])][4]
         ELSE c

\* Capital sigma lowers to the final form after a cased character and not
\* before one, case-ignorable characters being skipped on both sides.
FinalSigma(cs, k) ==
    LET before == {j \in 1..(k - 1) : ~IsCaseIgnorable(cs[j])}
        after  == {j \in (k + 1)..Len(cs) : ~IsCaseIgnorable(cs[j])}
        prev   == CHOOSE j \in before : \A h \in before : h <= j
        next   == CHOOSE j \in after : \A h \in after : j <= h
    IN  /\ before /= {}
        /\ IsCased(cs[prev])
        /\ (after = {} \/ ~IsCased(cs[next]))

\* The lowercase of the character at position k: capital I with dot above
\* lowers to two characters, capital sigma by its context.
LowerAt(cs, k) ==
    IF cs[k] = 931 THEN <<IF FinalSigma(cs, k) THEN 962 ELSE 963>>
    ELSE IF cs[k] = 304 THEN <<105, 775>>
    ELSE <<LowerChar(cs[k])>>

RECURSIVE LowerUpTo(_, _)
LowerUpTo(cs, k) ==
    IF k = 0 THEN <<>> ELSE LowerUpTo(cs, k - 1) \o LowerAt(cs, k)

Lower(cs) == LowerUpTo(cs, Len(cs))

\* The characters strip() removes.
Whitespace ==
    {9, 10, 11, 12, 13, 28, 29, 30, 31, 32, 133, 160, 5760}
        \cup (8192..8202) \cup {8232, 8233, 8239, 8287, 12288}

RECURSIVE LStrip(_)
LStrip(cs) ==
    IF cs /= <<>> /\ Head(cs) \in Whitespace THEN LStrip(Tail(cs)) ELSE cs

RECURSIVE RStrip(_)
RStrip(cs) ==
    IF cs /= <<>> /\ cs[Len(cs)] \in Whitespace
    THEN RStrip(SubSeq(cs, 1, Len(cs) - 1))
    ELSE cs

Strip(cs) == RStrip(LStrip(cs))

---------------------------------------------------------------------------
\* The literals of the program.

StrInfo    == <<105, 110, 102, 111>>  \* "info"
StrSuccess == <<115, 117, 99, 99, 101, 115, 115>>  \* "success"
StrWarning == <<119, 97, 114, 110, 105, 110, 103>>  \* "warning"
StrFailure == <<102, 97, 105, 108, 117, 114, 101>>  \* "failure"

NotifyTypes == {StrInfo, StrSuccess, StrWarning, StrFailure}

MsgInvalidJson  == "Invalid JSON payload"
MsgInvalidUrls  == "Invalid urls: expected list"
MsgInvalidTitle == "Invalid title/body"
MsgNoDest       == "No valid notification destinations"
MsgNotifyFailed == "Apprise notify failed"

\* json.dumps of the two objects the program serialises.
DumpsBool(x) == IF x THEN "true" ELSE "false"
DumpsError(message) ==
    "{\"success\": false, \"error\": \"" \o message \o "\"}"
DumpsResult(success, destinations) ==
    "{\"success\": " \o DumpsBool(success) \o ", \"destinations\": "
        \o ToString(destinations) \o "}"

---------------------------------------------------------------------------
\* Observable events.

Ev(kind) == [ev |-> kind, text |-> "", url |-> <<>>, title |-> <<>>,
             body |-> <<>>, sev |-> <<>>, res |-> "none"]

StdoutWrite(txt) == [Ev("stdout") EXCEPT !.text = txt]
StderrWrite(txt) == [Ev("stderr") EXCEPT !.text = txt]
FlushOut         == Ev("flush_stdout")
FlushErr         == Ev("flush_stderr")
ConstructCall    == Ev("construct")
AddCall(u, r)    == [Ev("add") EXCEPT !.url = u, !.res = r]
NotifyCall(t, b, s, r) ==
    [Ev("notify") EXCEPT !.title = t, !.body = b, !.sev = s, !.res = r]

\* A SystemExit raised inside the library, by the code it carries: None, the
\* integers 3 and 256, and the string "boom".
SystemExitOutcomes ==
    {"raise_systemexit:None", "raise_systemexit:3", "raise_systemexit:256",
     "raise_systemexit:boom"}

\* The other exceptions that are not instances of Exception: a
\* KeyboardInterrupt, a GeneratorExit, a BaseException subclass of the
\* library's own.
OtherBaseOutcomes ==
    {"raise_keyboardinterrupt", "raise_generatorexit", "raise_otherbase"}

\* What add may do: return a true or a false value, raise an Exception
\* ("raise"), or raise a BaseException that is not an Exception.
AddOutcomes ==
    {"true", "false", "raise"} \cup SystemExitOutcomes \cup OtherBaseOutcomes

\* What notify may do: as add, and an Exception whose str() itself raises
\* ("raise_badstr").
NotifyOutcomes ==
    {"true", "false", "raise", "raise_badstr"}
        \cup SystemExitOutcomes \cup OtherBaseOutcomes

\* except Exception: the outcomes the handler takes.
CaughtByExcept(r) == r \in {"raise", "raise_badstr"}

\* Outcomes that `except Exception` lets through.
Escapes(r) == r \in SystemExitOutcomes \cup OtherBaseOutcomes

\* The code a SystemExit carries: kind "none", "int" (n) or "other" (text is
\* its str()).
SystemExitCode(r) ==
    CASE r = "raise_systemexit:None" -> [kind |-> "none",  n |-> 0,   text |-> ""]
      [] r = "raise_systemexit:3"    -> [kind |-> "int",   n |-> 3,   text |-> ""]
      [] r = "raise_systemexit:256"  -> [kind |-> "int",   n |-> 256, text |-> ""]
      [] r = "raise_systemexit:boom" -> [kind |-> "other", n |-> 0,   text |-> "boom"]

\* The interpreter's exit status for a SystemExit: 0 for None, the low
\* eight bits of an integer, 1 for anything else.
SystemExitStatus(code) ==
    CASE code.kind = "none"  -> 0
      [] code.kind = "int"   -> code.n % 256
      [] code.kind = "other" -> 1

\* The name the traceback of an escaping exception ends with.
ExcName(r) ==
    CASE r = "raise_keyboardinterrupt" -> "KeyboardInterrupt"
      [] r = "raise_generatorexit"     -> "GeneratorExit"
      [] r = "raise_otherbase"         -> "apprise._OtherBase"
      [] r = "raise_badstr"            -> "RuntimeError: str() of the exception raises"

\* A KeyboardInterrupt kills the process by SIGINT (status -2); any other
\* uncaught exception gives status 1.
UncaughtStatus(r) == IF r = "raise_keyboardinterrupt" THEN -2 ELSE 1

---------------------------------------------------------------------------
\* Inputs.  Absent marks a key the request object does not carry.

Absent == [t |-> "absent", b |-> FALSE, n |-> 0, s |-> <<>>, l |-> <<>>, m |-> {}]

Member(key, v) == IF v = Absent THEN {} ELSE {<<key, v>>}

Request(u, t, b, nt) ==
    JObj(Member("urls", u) \cup Member("title", t) \cup Member("body", b)
            \cup Member("notifyType", nt))

SeqsUpTo(S, n) == UNION {[1..k -> S] : k \in 0..n}

SomeObj == JObj({<<"k", JNum(1)>>})

StrU == <<117>>  \* "u"

\* Entries of a urls list: a plain url "u", one with surrounding whitespace
\* " \fu\u00a0\n", a blank one " \t\u2028", and a non-string.
UrlEntries ==
    {JStr(StrU), JStr(<<32, 12, 117, 160, 10>>), JStr(<<32, 9, 8232>>), JNum(7)}

UrlsValues ==
    {JList(q) : q \in SeqsUpTo(UrlEntries, MaxUrls)}
        \cup {Absent, JNull, JStr(<<>>), JStr(StrU), JNum(0), JNum(1),
              JBool(FALSE), JBool(TRUE), JObj({}), SomeObj}

TitleValues ==
    {Absent, JStr(<<84>>), JNum(0), JNum(5), JBool(FALSE), JList(<<>>),
     JObj({})}

BodyValues == {Absent, JStr(<<66>>), JNum(0), SomeObj}

NotifyTypeValues ==
    {Absent, JNull, JStr(StrInfo),
     JStr(<<73, 78, 70, 79>>),            \* "INFO"
     JStr(<<83, 117, 99, 99, 101, 115, 115>>), \* "Success"
     JStr(StrWarning),
     JStr(<<70, 65, 73, 76, 85, 82, 69>>),  \* "FAILURE"
     JStr(<<85, 82, 71, 69, 78, 84>>),      \* "URGENT"
     JStr(<<304, 78, 70, 79>>),           \* "\u0130NFO"
     JNum(0), JNum(5), JList(<<>>), SomeObj}

\* JSON documents that are not objects.
NonObjects ==
    {JNull, JBool(TRUE), JNum(3), JStr(StrU), JList(<<>>),
     JList(<<JStr(StrU)>>)}

Requests ==
    {Request(u, t, b, nt) : u \in UrlsValues, t \in TitleValues,
                            b \in BodyValues, nt \in NotifyTypeValues}

StdinInputs ==
    {[decodable |-> FALSE, value |-> JNull]}
        \cup {[decodable |-> TRUE, value |-> v] : v \in NonObjects \cup Requests}

---------------------------------------------------------------------------
\* The program.

Init ==
    /\ stdin \in StdinInputs
    /\ pc = "load"
    /\ payload = JNull
    /\ urls = JNull
    /\ title = JNull
    /\ body = JNull
    /\ notify_type = JNull
    /\ i = 0
    /\ added = 0
    /\ ok = FALSE
    /\ trace = <<>>
    /\ exit_code = -1

\* _fail(message): write the error object and a newline to stdout, flush,
\* raise SystemExit(1).  pre are the events of the same step that precede it.
Fail(pre, message) ==
    /\ trace' = trace \o pre
                    \o <<StdoutWrite(DumpsError(message) \o "\n"), FlushOut>>
    /\ exit_code' = 1
    /\ pc' = "exited"

\* An exception no handler catches: the interpreter prints the traceback on
\* stderr and the process ends with the given status (1, or -2, death by
\* SIGINT, for KeyboardInterrupt).  pre are the events of the same step that
\* precede it.
Uncaught(pre, exc, status) ==
    /\ trace' = trace \o pre
                    \o <<StderrWrite("Traceback (most recent call last): " \o exc)>>
    /\ exit_code' = status
    /\ pc' = "exited"

\* A SystemExit that reaches the interpreter: a code that is neither None
\* nor an integer is printed on stderr; the process exits with the status
\* of the code.
SystemExitRaised(pre, code) ==
    /\ trace' = trace \o pre
                    \o (IF code.kind = "other"
                        THEN <<StderrWrite(code.text \o "\n")>>
                        ELSE <<>>)
    /\ exit_code' = SystemExitStatus(code)
    /\ pc' = "exited"

\* A library call whose outcome r is not caught by `except Exception`.
Escape(pre, r) ==
    IF r \in SystemExitOutcomes
    THEN SystemExitRaised(pre, SystemExitCode(r))
    ELSE Uncaught(pre, ExcName(r), UncaughtStatus(r))

\* payload = json.load(sys.stdin), with its except clause.
Load ==
    /\ pc = "load"
    /\ IF ~stdin.decodable
       THEN /\ Fail(<<>>, MsgInvalidJson)
            /\ UNCHANGED payload
       ELSE /\ payload' = stdin.value
            /\ pc' = "get_urls"
            /\ UNCHANGED <<trace, exit_code>>
    /\ UNCHANGED <<stdin, urls, title, body, notify_type, i, added, ok>>

\* urls = payload.get("urls") or []; the isinstance check that follows.
GetUrls ==
    /\ pc = "get_urls"
    /\ IF ~HasGet(payload)
       THEN /\ Uncaught(<<>>, "AttributeError: get", 1)
            /\ UNCHANGED urls
       ELSE LET u == PyOr(Get(payload, "urls"), JList(<<>>)) IN
            /\ urls' = u
            /\ IF ~IsList(u)
               THEN Fail(<<>>, MsgInvalidUrls)
               ELSE /\ pc' = "get_fields"
                    /\ UNCHANGED <<trace, exit_code>>
    /\ UNCHANGED <<stdin, payload, title, body, notify_type, i, added, ok>>

\* The severity as main normalises it, for a value that has .lower().
NormaliseType(v) == IF Lower(v.s) \in NotifyTypes THEN Lower(v.s) ELSE StrInfo

\* title, body and notify_type are read; .lower() exists on strings only.
GetFields ==
    /\ pc = "get_fields"
    /\ title' = PyOr(Get(payload, "title"), JStr(<<>>))
    /\ body' = PyOr(Get(payload, "body"), JStr(<<>>))
    /\ LET nt == PyOr(Get(payload, "notifyType"), JStr(StrInfo)) IN
       IF ~IsStr(nt)
       THEN /\ Uncaught(<<>>, "AttributeError: lower", 1)
            /\ UNCHANGED notify_type
       ELSE /\ notify_type' = JStr(NormaliseType(nt))
            /\ pc' = "check_title_body"
            /\ UNCHANGED <<trace, exit_code>>
    /\ UNCHANGED <<stdin, payload, urls, i, added, ok>>

\* if not isinstance(title, str) or not isinstance(body, str): _fail(...)
CheckTitleBody ==
    /\ pc = "check_title_body"
    /\ IF ~IsStr(title) \/ ~IsStr(body)
       THEN Fail(<<>>, MsgInvalidTitle)
       ELSE /\ pc' = "construct"
            /\ UNCHANGED <<trace, exit_code>>
    /\ UNCHANGED <<stdin, payload, urls, title, body, notify_type, i, added, ok>>

\* apobj = apprise.Apprise(); added = 0
Construct ==
    /\ pc = "construct"
    /\ trace' = Append(trace, ConstructCall)
    /\ added' = 0
    /\ i' = 0
    /\ pc' = "loop"
    /\ UNCHANGED <<stdin, payload, urls, title, body, notify_type, ok, exit_code>>

\* Variant: the loop gives up after its first entry.
LoopDoneEarly(k, q) == k >= 1 \/ k = Len(q)

\* The for loop is over when every entry has been taken.
LoopDone(k, q) == k = Len(q)

\* Variant: every add that returns is counted, whatever it returned.
AfterAddLoose(a, r) == IF r /= "raise" THEN a + 1 ELSE a

\* added after one add call whose outcome is r.
AfterAdd(a, r) == IF r = "true" THEN a + 1 ELSE a

\* One iteration of `for raw in urls`.
LoopStep ==
    /\ pc = "loop"
    /\ ~LoopDone(i, urls.l)
    /\ LET raw == urls.l[i + 1] IN
       IF ~IsStr(raw) \/ Strip(raw.s) = <<>>
       THEN /\ i' = i + 1
            /\ UNCHANGED <<trace, added, pc, exit_code>>
       ELSE \E r \in AddOutcomes :
                LET call == AddCall(Strip(raw.s), r) IN
                IF Escapes(r)
                THEN /\ Escape(<<call>>, r)
                     /\ i' = i + 1
                     /\ UNCHANGED added
                ELSE /\ trace' = Append(trace, call)
                     /\ added' = AfterAdd(added, r)
                     /\ i' = i + 1
                     /\ UNCHANGED <<pc, exit_code>>
    /\ UNCHANGED <<stdin, payload, urls, title, body, notify_type, ok>>

\* if added == 0
NoneAdded(a) == a = 0

\* After the loop: _fail when nothing was registered.
CheckAdded ==
    /\ pc = "loop"
    /\ LoopDone(i, urls.l)
    /\ IF NoneAdded(added)
       THEN Fail(<<>>, MsgNoDest)
       ELSE /\ pc' = "notify"
            /\ UNCHANGED <<trace, exit_code>>
    /\ UNCHANGED <<stdin, payload, urls, title, body, notify_type, i, added, ok>>

\* The except clause of the notify call, before its _fail.
ExceptWrites ==
    <<StderrWrite("Apprise notify failed: exc\n"), FlushErr>>

\* ok = bool(apobj.notify(...)), with its except clause.
Notify ==
    /\ pc = "notify"
    /\ \E r \in NotifyOutcomes :
        LET call == NotifyCall(title.s, body.s, notify_type.s, r) IN
        IF r = "raise_badstr"
        THEN \* formatting exc in the handler raises: nothing is written
             /\ Uncaught(<<call>>, ExcName(r), UncaughtStatus(r))
             /\ UNCHANGED ok
        ELSE IF CaughtByExcept(r)
        THEN /\ Fail(<<call>> \o ExceptWrites, MsgNotifyFailed)
             /\ UNCHANGED ok
        ELSE IF Escapes(r)
        THEN /\ Escape(<<call>>, r)
             /\ UNCHANGED ok
        ELSE /\ ok' = (r = "true")
             /\ trace' = Append(trace, call)
             /\ pc' = "report"
             /\ UNCHANGED exit_code
    /\ UNCHANGED <<stdin, payload, urls, title, body, notify_type, i, added>>

\* raise SystemExit(0 if ok else 1)
ExitStatus(success) == IF success THEN 0 ELSE 1

\* The result object is written and the process exits.
Report ==
    /\ pc = "report"
    /\ trace' = trace \o <<StdoutWrite(DumpsResult(ok, added) \o "\n"), FlushOut>>
    /\ exit_code' = ExitStatus(ok)
    /\ pc' = "exited"
    /\ UNCHANGED <<stdin, payload, urls, title, body, notify_type, i, added, ok>>

Next ==
    \/ Load
    \/ GetUrls
    \/ GetFields
    \/ CheckTitleBody
    \/ Construct
    \/ LoopStep
    \/ CheckAdded
    \/ Notify
    \/ Report

Spec == Init /\ [][Next]_vars

---------------------------------------------------------------------------
\* Views of the trace.

Stdout == SelectSeq(trace, LAMBDA e : e.ev = "stdout")
Stderr == SelectSeq(trace, LAMBDA e : e.ev = "stderr")
AddCalls == SelectSeq(trace, LAMBDA e : e.ev = "add")
NotifyCalls == SelectSeq(trace, LAMBDA e : e.ev = "notify")
LibraryCalls == SelectSeq(trace, LAMBDA e : e.ev \in {"construct", "add", "notify"})

Exited == pc = "exited"

---------------------------------------------------------------------------
\* Vocabulary of the properties, stated on the input and the trace.

\* The one line an error exit writes / a completed dispatch writes.
ErrorLine(message) == StdoutWrite(DumpsError(message) \o "\n")
ResultLine(success, n) == StdoutWrite(DumpsResult(success, n) \o "\n")

IsRequest == stdin.decodable /\ stdin.value.t = "obj"
Field(key) == Get(stdin.value, key)
Present(key) == \E p \in stdin.value.m : p[1] = key

\* The entries of the request's urls: none unless the field is a list.
InputUrls == IF Field("urls").t = "list" THEN Field("urls").l ELSE <<>>

Constructed == \E k \in DOMAIN trace : trace[k].ev = "construct"
NotifyRaised == \E k \in DOMAIN trace : trace[k].ev = "notify" /\ trace[k].res = "raise"
NotifyReturned ==
    \E k \in DOMAIN trace : trace[k].ev = "notify" /\ trace[k].res \in {"true", "false"}
NumRegistered == Len(SelectSeq(trace, LAMBDA e : e.ev = "add" /\ e.res = "true"))

\* Whitespace trimming stated directly: the span from the first to the last
\* character that is not whitespace.
Blank(cs) == \A k \in DOMAIN cs : cs[k] \in Whitespace
Trimmed(cs) ==
    LET ks == {k \in DOMAIN cs : cs[k] \notin Whitespace}
        lo == CHOOSE k \in ks : \A j \in ks : k <= j
        hi == CHOOSE k \in ks : \A j \in ks : k >= j
    IN  IF ks = {} THEN <<>> ELSE SubSeq(cs, lo, hi)

Eligible(e) == e.t = "str" /\ ~Blank(e.s)

\* The trimmed urls of the eligible entries among the first k entries of q.
RECURSIVE EligibleUrls(_, _)
EligibleUrls(q, k) ==
    IF k = 0 THEN <<>>
    ELSE IF Eligible(q[k])
         THEN Append(EligibleUrls(q, k - 1), Trimmed(q[k].s))
         ELSE EligibleUrls(q, k - 1)

AddUrls == [k \in DOMAIN AddCalls |-> AddCalls[k].url]

\* The severity the request asks for, by the documented coercion.
ExpectedSeverity(v) ==
    IF v.t = "str" /\ Lower(v.s) \in NotifyTypes THEN Lower(v.s) ELSE StrInfo

---------------------------------------------------------------------------
\* C1: every terminated invocation has written exactly one newline-terminated
\* JSON object to stdout, and no invocation ever writes more than one.
C1_ExactlyOneObject ==
    /\ Len(Stdout) <= 1
    /\ Exited =>
        /\ Len(Stdout) = 1
        /\ \/ \E msg \in {MsgInvalidJson, MsgInvalidUrls, MsgInvalidTitle,
                          MsgNoDest, MsgNotifyFailed} :
                  Stdout[1] = ErrorLine(msg)
           \/ \E success \in BOOLEAN, n \in 0..Len(trace) :
                  Stdout[1] = ResultLine(success, n)

\* C2: the exit code is 0 exactly when notify was called and returned true,
\* and 1 on every other terminating path; exit code 0 coincides with a
\* stdout object whose success is true and whose destinations is at least 1.
C2_ExitCode ==
    Exited =>
        /\ exit_code \in {0, 1}
        /\ exit_code = 0 <=>
              \E k \in DOMAIN trace :
                  trace[k].ev = "notify" /\ trace[k].res = "true"
        /\ exit_code = 0 =>
              \E n \in 1..Len(trace) : Stdout = <<ResultLine(TRUE, n)>>

\* C3: a urls field that is present and is a string, a number, a boolean or
\* an object (empty or zero ones included) ends the invocation with the
\* "Invalid urls: expected list" object, exit code 1 and no library call.
C3_NonListUrlsRejected ==
    (Exited /\ IsRequest /\ Present("urls")
        /\ Field("urls").t \in {"str", "num", "bool", "obj"}) =>
        /\ Stdout = <<ErrorLine(MsgInvalidUrls)>>
        /\ exit_code = 1
        /\ LibraryCalls = <<>>

\* C4: with acceptable urls, a title or body that is present and is a
\* number, a boolean, a list or an object ends the invocation with the
\* "Invalid title/body" object, exit code 1, and neither add nor notify.
C4_NonStringTitleBodyRejected ==
    (Exited /\ IsRequest /\ Field("urls").t \in {"null", "list"}
        /\ \/ Field("title").t \in {"num", "bool", "list", "obj"}
           \/ Field("body").t \in {"num", "bool", "list", "obj"}) =>
        /\ Stdout = <<ErrorLine(MsgInvalidTitle)>>
        /\ exit_code = 1
        /\ AddCalls = <<>>
        /\ NotifyCalls = <<>>

\* C5: the severity passed to notify is the lowercased notifyType when that
\* is one of the four, info otherwise, and no notifyType value makes the
\* invocation raise.
C5_SeverityCoerced ==
    IsRequest =>
        /\ \A k \in DOMAIN NotifyCalls :
              /\ NotifyCalls[k].sev \in NotifyTypes
              /\ NotifyCalls[k].sev = ExpectedSeverity(Field("notifyType"))
        /\ ~\E k \in DOMAIN Stderr :
              Stderr[k] = StderrWrite("Traceback (most recent call last): "
                                        \o "AttributeError: lower")

\* C6: when every entry of urls has been processed and no add returned
\* true, the invocation ends with the "No valid notification destinations"
\* object and exit code 1, and notify is never called.
C6_NoDestinations ==
    /\ pc \in {"notify", "report"} => NumRegistered >= 1
    /\ (Exited /\ Constructed /\ i = Len(InputUrls) /\ NumRegistered = 0) =>
          /\ Stdout = <<ErrorLine(MsgNoDest)>>
          /\ exit_code = 1
          /\ NotifyCalls = <<>>

\* C7: on a completed dispatch, add was called once, in order, on the
\* trimmed text of every entry that is a string and not blank, whatever the
\* entries before it were or did; destinations is the number of those calls
\* that returned true, and success is the boolean notify returned.
C7_DestinationsCount ==
    (Exited /\ NotifyReturned) =>
        /\ AddUrls = EligibleUrls(InputUrls, Len(InputUrls))
        /\ Stdout = <<ResultLine(NotifyCalls[1].res = "true", NumRegistered)>>

C7_Witness ==
    /\ Exited
    /\ NotifyReturned
    /\ Len(InputUrls) = 2
    /\ Len(AddCalls) = 2
    /\ AddCalls[1].res = "raise"
    /\ AddCalls[2].res = "true"
    /\ AddCalls[2].url /= InputUrls[2].s
    /\ Stdout = <<ResultLine(FALSE, 1)>>

\* C8: when notify raises, whatever it raises, what follows the call is a
\* stderr line, then the "Apprise notify failed" object on stdout, and exit
\* code 1; stdout holds nothing else.
C8_NotifyRaises ==
    (\E k \in DOMAIN trace : trace[k].ev = "notify"
                              /\ trace[k].res \notin {"true", "false"}) =>
        LET at == CHOOSE k \in DOMAIN trace : trace[k].ev = "notify"
            rest == SubSeq(trace, at + 1, Len(trace))
        IN  /\ Exited
            /\ exit_code = 1
            /\ [k \in DOMAIN rest |-> rest[k].ev]
                   = <<"stderr", "flush_stderr", "stdout", "flush_stdout">>
            /\ Stdout = <<ErrorLine(MsgNotifyFailed)>>

\* C9: something is on stderr only when the notify call raised.
C9_StderrOnlyOnDispatchFailure ==
    Stderr /= <<>> => NotifyRaised

\* C10: library calls happen only for a decoded request whose urls and
\* title/body passed their checks and before anything is written to stdout;
\* the client is constructed once, first; add is called at most once per
\* entry, in list order; notify is called at most once, after the last add,
\* when every entry was processed and at least one destination registered;
\* no library call follows one that raised out of main.
C10_LinearOrder ==
    /\ Len(Stdout) <= 1
    /\ Len(NotifyCalls) <= 1
    /\ \A j, k \in DOMAIN trace :
          /\ (trace[k].ev = "construct") => k = 1
          /\ (j < k /\ trace[j].ev = "stdout") =>
                trace[k].ev \notin {"construct", "add", "notify"}
          /\ (j < k /\ trace[j].ev = "notify") => trace[k].ev /= "add"
    /\ LibraryCalls /= <<>> =>
          /\ IsRequest
          /\ IsList(urls) /\ urls.l = InputUrls
          /\ IsStr(title) /\ IsStr(body)
          /\ trace[1].ev = "construct"
          /\ i <= Len(InputUrls)
          /\ AddUrls = EligibleUrls(InputUrls, i)
          /\ \A k \in DOMAIN trace :
                (Escapes(trace[k].res) \/ trace[k].res = "raise_badstr") =>
                    \A j \in DOMAIN trace :
                        j > k => trace[j].ev \notin {"construct", "add", "notify"}
    /\ NotifyCalls /= <<>> =>
          /\ i = Len(InputUrls)
          /\ NumRegistered >= 1

C10_Witness ==
    /\ Exited
    /\ Len(AddCalls) = 2
    /\ Len(NotifyCalls) = 1
    /\ NotifyReturned
    /\ trace[Len(trace)].ev = "flush_stdout"

====
